---- MODULE Spec2Model ----
(***************************************************************************)
(* Model of app/core/task_queue.py: the in-memory TaskQueue (Local Store), *)
(* its ThreadPoolExecutor workers running _execute_task, the unlocked      *)
(* field reads of Task.to_dict behind get_task_status, and the retention   *)
(* sweep cleanup_old_tasks.                                                *)
(***************************************************************************)
EXTENDS Integers, Naturals, Sequences, FiniteSets, TLC

VARIABLES
    clock,   \* the reading time.time() returns now
    nextId,  \* the ids uuid4 has produced so far are 1 .. nextId - 1
    tasks,   \* self._tasks: task id -> Task
    calls,   \* task id -> what its callable did when _execute_task called it
    queue,   \* the executor's work queue: ids whose _execute_task is waiting
    swept,   \* the ids cleanup_old_tasks has removed
    wpc,     \* pool thread -> its place in _execute_task ("idle": no call)
    wtask,   \* pool thread -> the task_id of its call
    excs,    \* the ids whose _execute_task call ended with an exception
    wnow,    \* pool thread -> the time.time() reading it is about to write
    wexc,    \* pool thread -> the exception its except clause caught
    sub,     \* the ids whose submit call has stored the record and has not
             \* queued the execution yet
    rpc,     \* the polling caller's place in get_task_status
    rid,     \* its task_id argument
    rtask,   \* its reference: "null", "live" (a stored Task), "dead" (removed)
    rdead,   \* the removed Task object it still refers to
    rdata,   \* the dict asdict is filling
    rret,    \* the value get_task_status returned
    rseen,   \* the states of the record at the instants the lock was free
             \* during the call
    rexc,    \* the exception get_task_status raised instead of returning
    redis,   \* self._redis of the adapter: None, or the client of a live store
    store,   \* the external store's hashes: task id -> (field -> text)
    sexc,    \* the ids whose submit call raised, storing nothing
    cret,    \* the value the last cleanup_old_tasks call returned
    task_queue, \* the module's global task_queue: None, or a queue instance
    gpc,     \* caller of get_task_queue -> its place in it
    gret,    \* caller -> the instance get_task_queue returned to it
    itasks,  \* queue instance -> its class and the keys of its records
    ginit,   \* the number of initialize_task_queue calls so far
    cache,   \* InMemoryCache._cache: key -> value
    expiry,  \* InMemoryCache._expiry: key -> time
    got,     \* the key and the returned value of the last InMemoryCache.get
    csets,   \* key -> the value and the deadline t + ttl of its latest set
    sweeps   \* the number of cleanup_old_tasks calls on record is odd (a call
             \* that removes nothing changes no other variable)

vars == <<clock, nextId, tasks, calls, queue, swept, wpc, wtask, excs, wnow, wexc, sub,
          rpc, rid, rtask, rdead, rdata, rret, rseen, rexc, redis, store, sexc, cret,
          task_queue, gpc, gret, itasks, ginit, cache, expiry, got, csets, sweeps>>

----------------------------------------------------------------------------
(* Bounds of the model *)

MaxTasks == 2

MaxPolled == 1

MaxClock == 1

MaxAge == 1

max_workers == 1

MaxCallers == 3

MaxKeys == 2

MaxTtl == 1

MaxInits == 1

----------------------------------------------------------------------------
(* Values *)

\* Optional[T]: None is the empty sequence, a set value v is <<v>>.
None == <<>>

Some(v) == <<v>>

\* Values a submitted callable can return: Python None, or a dict.
ReturnValues == {"None", "{n: 42}"}

\* Messages a submitted callable can raise an Exception with.
Messages == {"", "boom"}

\* Exceptions a submitted callable can raise that are no Exception: the
\* other subclasses of BaseException, which `except Exception` lets through.
BaseExceptions == {"SystemExit"}

\* What a submitted callable does when it is called: it returns a value, it
\* raises an Exception with a message, or it raises another BaseException.
Outcomes ==
    [kind : {"return"}, val : ReturnValues] \cup [kind : {"raise"}, val : Messages]
        \cup [kind : {"raise_base"}, val : BaseExceptions]

TaskIds == 1 .. MaxTasks

\* An identifier no submit ever returned.
UnknownId == 0

\* ThreadPoolExecutor(max_workers=k): the threads of a pool of capacity k.
Pool(k) == 1 .. k

\* The threads of the executor in use.
Workers == DOMAIN wpc

MaxAges == 0 .. MaxAge

\* class TaskStatus(str, Enum)
PENDING == "PENDING"

PROCESSING == "PROCESSING"

COMPLETED == "COMPLETED"

FAILED == "FAILED"

TaskStatus == {PENDING, PROCESSING, COMPLETED, FAILED}

\* TaskStatus.value
StatusValue(s) ==
    CASE s = PENDING -> "pending"
      [] s = PROCESSING -> "processing"
      [] s = COMPLETED -> "completed"
      [] s = FAILED -> "failed"

\* The result field as the callable's return value stores it: Python None is
\* the unset value of Optional[Dict].
ResultOf(v) == IF v = "None" THEN None ELSE Some(v)

\* @dataclass Task, as built by submit.
Task(id, created, updated) ==
    [id |-> id, status |-> PENDING, created_at |-> created, updated_at |-> updated,
     result |-> None, error |-> None]

\* Task.to_dict of a whole record.
ToDict(t) ==
    [id |-> t.id, status |-> StatusValue(t.status), created_at |-> t.created_at,
     updated_at |-> t.updated_at, result |-> t.result, error |-> t.error]

\* The exception a callable raises: Exception(msg).
Exc(msg) == [type |-> "Exception", arg |-> msg]

\* str(e) of an exception built with one string argument: that argument.
Str(e) == e.arg

\* The threads that call get_task_queue.
Callers == 1 .. MaxCallers

\* The keys, values and ttl arguments InMemoryCache is used with.
Keys == 1 .. MaxKeys

Values == {"a", "b"}

Ttls == 0 .. MaxTtl

----------------------------------------------------------------------------
(* Initial state *)

\* Line 175 of task_queue.py: task_queue = None when the module is loaded;
\* every caller is about to enter get_task_queue.
SingletonInit ==
    /\ task_queue = None
    /\ gpc = [c \in Callers |-> "l180"]
    /\ gret = [c \in Callers |-> None]
    /\ itasks = <<>>
    /\ ginit = 0

\* InMemoryCache.__init__
CacheInit ==
    /\ cache = <<>>
    /\ expiry = <<>>
    /\ got = None
    /\ csets = <<>>

\* TaskQueue.__init__(max_workers=k)
TaskQueueInit(k) ==
    /\ clock = 0
    /\ nextId = 1
    /\ tasks = <<>>
    /\ calls = <<>>
    /\ queue = <<>>
    /\ swept = {}
    /\ wpc = [w \in Pool(k) |-> "idle"]
    /\ wtask = [w \in Pool(k) |-> UnknownId]
    /\ excs = {}
    /\ wnow = [w \in Pool(k) |-> None]
    /\ wexc = [w \in Pool(k) |-> None]
    /\ sub = {}
    /\ rpc = "idle"
    /\ rid = UnknownId
    /\ rtask = "null"
    /\ rdead = None
    /\ rdata = <<>>
    /\ rret = None
    /\ rseen = {}
    /\ rexc = None
    /\ redis = None
    /\ store = <<>>
    /\ sexc = {}
    /\ cret = None
    /\ sweeps = FALSE
    /\ SingletonInit
    /\ CacheInit

\* A TaskQueue with a pool of max_workers threads.
Init == TaskQueueInit(max_workers)

wvars == <<wpc, wtask, excs, wnow, wexc>>

rvars == <<rpc, rid, rtask, rdead, rdata, rret, rseen, rexc>>

avars == <<redis, store, sexc>>

gvars == <<task_queue, gpc, gret, itasks, ginit>>

cvars == <<cache, expiry, got, csets>>

\* The state of the queue, its pool, its polling caller and the adapter.
qvars == <<clock, nextId, tasks, calls, queue, swept, wvars, rvars, avars, cret, sub, sweeps>>

\* time.time() advances.
Tick ==
    /\ clock < MaxClock
    /\ clock' = clock + 1
    /\ UNCHANGED <<nextId, tasks, calls, queue, swept, wvars, rvars, avars, cret, sub, gvars, cvars, sweeps>>

----------------------------------------------------------------------------
(* TaskQueue.submit *)

\* submit that stores no record.
SubmitNoRecord ==
    /\ nextId <= MaxTasks
    /\ sub' = sub \cup {nextId}
    /\ nextId' = nextId + 1
    /\ UNCHANGED <<clock, tasks, calls, queue, swept, wvars, rvars, avars, cret, gvars, cvars, sweeps>>

\* Lines 46-56 of submit(func, ...): the Task is built from two successive
\* readings of time.time(), taken before the lock is acquired (so both may lie
\* in the past when the record is stored), and it is stored under the lock.
\* The lock is released with the execution not queued yet.
Submit ==
    /\ nextId <= MaxTasks
    /\ \E created \in 0 .. clock : \E updated \in created .. clock :
           tasks' = tasks @@ (nextId :> Task(nextId, created, updated))
    /\ sub' = sub \cup {nextId}
    /\ nextId' = nextId + 1
    /\ UNCHANGED <<clock, calls, queue, swept, wvars, rvars, avars, cret, gvars, cvars, sweeps>>

\* Schedule that queues the execution twice.
ScheduleTwice(id) ==
    /\ id \in sub
    /\ queue' = Append(Append(queue, id), id)
    /\ sub' = sub \ {id}
    /\ UNCHANGED <<clock, nextId, tasks, calls, swept, wvars, rvars, avars, cret, gvars, cvars, sweeps>>

\* Lines 58-61 of submit: self._executor.submit(self._execute_task, task_id,
\* ...) queues the execution, and submit returns the id.
Schedule(id) ==
    /\ id \in sub
    /\ queue' = Append(queue, id)
    /\ sub' = sub \ {id}
    /\ UNCHANGED <<clock, nextId, tasks, calls, swept, wvars, rvars, avars, cret, gvars, cvars, sweeps>>

----------------------------------------------------------------------------
(* ThreadPoolExecutor worker threads running TaskQueue._execute_task.      *)
(* Each "with self._lock" block is one step: the blocks exclude each other *)
(* and submit, get_task and cleanup_old_tasks, and the reads of to_dict,   *)
(* which take no lock, see each field either before or after a block in    *)
(* the order asdict reads them (updated_at before result, error, status)   *)
(* while a block writes status first and updated_at last, so every mix of  *)
(* old and new fields such a read can return is returned with the block    *)
(* taken as one step.                                                      *)

\* Started, forgetting to set the status.
StartedNoStatus(t, now) == [t EXCEPT !.updated_at = now]

\* Started, leaving updated_at as submit set it.
StartedNoRefresh(t, now) == [t EXCEPT !.status = PROCESSING]

\* Lines 65-66: the record when execution starts.
Started(t, now) == [t EXCEPT !.status = PROCESSING, !.updated_at = now]

\* Completed, forgetting to store the returned value.
CompletedNoResult(t, value, now) == [t EXCEPT !.status = COMPLETED, !.updated_at = now]

\* Lines 72-74: the record when the callable has returned `value`.
Completed(t, value, now) ==
    [t EXCEPT !.status = COMPLETED, !.result = ResultOf(value), !.updated_at = now]

\* Lines 80-82: the record when the callable has raised e.
Failed(t, e, now) ==
    [t EXCEPT !.status = FAILED, !.error = Some(Str(e)), !.updated_at = now]

\* The get_task_status call in progress holds a reference to task id's object.
ReaderOn(id) == rid = id /\ rtask = "live"

\* The record as it stands when the lock is released: what a serialized
\* reader of task id could have seen.
Observe(id, t) == IF ReaderOn(id) THEN rseen \cup {t} ELSE rseen

\* The worker's call ends: normally, or with the exception left in the Future.
\* The thread holds no reading and no caught exception any more.
Finish(w, raised) ==
    /\ wpc' = [wpc EXCEPT ![w] = "idle"]
    /\ wtask' = [wtask EXCEPT ![w] = UnknownId]
    /\ excs' = IF raised THEN excs \cup {wtask[w]} ELSE excs
    /\ wnow' = [wnow EXCEPT ![w] = None]
    /\ wexc' = [wexc EXCEPT ![w] = None]

\* An idle pool thread takes the next work item off the executor's queue and
\* calls _execute_task(task_id, func).
Take(w) ==
    /\ wpc[w] = "idle"
    /\ queue # <<>>
    /\ wtask' = [wtask EXCEPT ![w] = Head(queue)]
    /\ queue' = Tail(queue)
    /\ wpc' = [wpc EXCEPT ![w] = "l64"]
    /\ UNCHANGED <<clock, nextId, tasks, calls, swept, excs, wnow, wexc, rvars, avars, cret, sub, gvars, cvars, sweeps>>

\* Lines 64-66: under the lock, status = PROCESSING and updated_at =
\* time.time(). A missing key raises KeyError outside the try block: it
\* leaves the call.
Start(w) ==
    /\ wpc[w] = "l64"
    /\ IF wtask[w] \in DOMAIN tasks
       THEN /\ tasks' = [tasks EXCEPT ![wtask[w]] = Started(@, clock)]
            /\ wpc' = [wpc EXCEPT ![w] = "l69"]
            /\ rseen' = Observe(wtask[w], tasks'[wtask[w]])
            /\ UNCHANGED <<wtask, excs, wnow, wexc>>
       ELSE /\ Finish(w, TRUE)
            /\ UNCHANGED <<tasks, rseen>>
    /\ UNCHANGED <<clock, nextId, calls, queue, swept, rpc, rid, rtask, rdead, rdata, rret, rexc, avars, cret, sub, gvars, cvars, sweeps>>

\* RunReturn that stores a fresh COMPLETED record when the key is missing.
RunReturnRecreates(w, value) ==
    /\ wpc[w] = "l69"
    /\ calls' = calls @@ (wtask[w] :> [kind |-> "return", val |-> value])
    /\ tasks' = IF wtask[w] \in DOMAIN tasks
                THEN [tasks EXCEPT ![wtask[w]] = Completed(@, value, clock)]
                ELSE tasks @@ (wtask[w] :> Completed(Task(wtask[w], clock, clock), value, clock))
    /\ rseen' = Observe(wtask[w], tasks'[wtask[w]])
    /\ Finish(w, FALSE)
    /\ UNCHANGED <<clock, nextId, queue, swept, rpc, rid, rtask, rdead, rdata, rret, rexc, avars, cret, sub, gvars, cvars, sweeps>>

\* Lines 68-76: the callable returns `value`; under the lock the record is
\* completed. A missing key raises KeyError at line 72, inside the try block:
\* the except clause catches it, and its own line 80 raises KeyError again,
\* which leaves the call.
RunReturn(w, value) ==
    /\ wpc[w] = "l69"
    /\ calls' = calls @@ (wtask[w] :> [kind |-> "return", val |-> value])
    /\ IF wtask[w] \in DOMAIN tasks
       THEN /\ tasks' = [tasks EXCEPT ![wtask[w]] = Completed(@, value, clock)]
            /\ rseen' = Observe(wtask[w], tasks'[wtask[w]])
            /\ Finish(w, FALSE)
       ELSE /\ Finish(w, TRUE)
            /\ UNCHANGED <<tasks, rseen>>
    /\ UNCHANGED <<clock, nextId, queue, swept, rpc, rid, rtask, rdead, rdata, rret, rexc, avars, cret, sub, gvars, cvars, sweeps>>

\* RunRaise that marks every stored record FAILED.
RunRaiseFailsAll(w, msg) ==
    /\ wpc[w] = "l69"
    /\ calls' = calls @@ (wtask[w] :> [kind |-> "raise", val |-> msg])
    /\ IF wtask[w] \in DOMAIN tasks
       THEN /\ tasks' = [id \in DOMAIN tasks |-> Failed(tasks[id], Exc(msg), clock)]
            /\ rseen' = Observe(wtask[w], tasks'[wtask[w]])
            /\ Finish(w, FALSE)
       ELSE /\ Finish(w, TRUE)
            /\ UNCHANGED <<tasks, rseen>>
    /\ UNCHANGED <<clock, nextId, queue, swept, rpc, rid, rtask, rdead, rdata, rret, rexc, avars, cret, sub, gvars, cvars, sweeps>>

\* RunRaise that drops the record of the failed task.
RunRaiseDrops(w, msg) ==
    /\ wpc[w] = "l69"
    /\ calls' = calls @@ (wtask[w] :> [kind |-> "raise", val |-> msg])
    /\ tasks' = [id \in DOMAIN tasks \ {wtask[w]} |-> tasks[id]]
    /\ Finish(w, FALSE)
    /\ UNCHANGED <<clock, nextId, queue, swept, rpc, rid, rtask, rdead, rdata, rret, rseen, rexc, avars, cret, sub, gvars, cvars, sweeps>>

\* Lines 68-69, 78-84: the callable raises Exception(msg); under the lock the
\* record is failed. A missing key raises KeyError at line 80, inside the
\* except clause: it leaves the call.
RunRaise(w, msg) ==
    /\ wpc[w] = "l69"
    /\ calls' = calls @@ (wtask[w] :> [kind |-> "raise", val |-> msg])
    /\ IF wtask[w] \in DOMAIN tasks
       THEN /\ tasks' = [tasks EXCEPT ![wtask[w]] = Failed(@, Exc(msg), clock)]
            /\ rseen' = Observe(wtask[w], tasks'[wtask[w]])
            /\ Finish(w, FALSE)
       ELSE /\ Finish(w, TRUE)
            /\ UNCHANGED <<tasks, rseen>>
    /\ UNCHANGED <<clock, nextId, queue, swept, rpc, rid, rtask, rdead, rdata, rret, rexc, avars, cret, sub, gvars, cvars, sweeps>>

\* Lines 68-69, 78: the callable raises a BaseException that is no Exception;
\* `except Exception` does not catch it, no line writes the record, and the
\* exception leaves the call.
RunRaiseBase(w, exc) ==
    /\ wpc[w] = "l69"
    /\ calls' = calls @@ (wtask[w] :> [kind |-> "raise_base", val |-> exc])
    /\ Finish(w, TRUE)
    /\ UNCHANGED <<clock, nextId, tasks, queue, swept, rvars, avars, cret, sub, gvars, cvars, sweeps>>

----------------------------------------------------------------------------
(* TaskQueue.get_task_status: get_task under the lock, to_dict without it *)

\* The Task object the reader's reference points to: the stored record, or
\* the object as cleanup_old_tasks left it when it dropped the key.
ReaderTask == IF rtask = "dead" THEN rdead[1] ELSE tasks[rid]

\* Lines 86-94: self._tasks.get(task_id) under the lock; None is returned for
\* a miss. A hit starts to_dict; id and created_at never change after submit.
GetTask(id) ==
    /\ rpc = "idle"
    /\ rid' = id
    /\ rdead' = None
    /\ rret' = None
    /\ IF id \in DOMAIN tasks
       THEN /\ rpc' = "asdict_updated_at"
            /\ rtask' = "live"
            /\ rdata' = [id |-> tasks[id].id, created_at |-> tasks[id].created_at]
            /\ rseen' = {tasks[id]}
       ELSE /\ rpc' = "ret"
            /\ rtask' = "null"
            /\ rdata' = <<>>
            /\ rseen' = {}
    /\ UNCHANGED <<clock, nextId, tasks, calls, queue, swept, wvars, rexc, avars, cret, sub, gvars, cvars, sweeps>>

\* asdict(self) reads the fields in declaration order, one at a time. (Its
\* read of status is overwritten by line 32.)
AsdictUpdatedAt ==
    /\ rpc = "asdict_updated_at"
    /\ rdata' = rdata @@ [updated_at |-> ReaderTask.updated_at]
    /\ rpc' = "asdict_result"
    /\ UNCHANGED <<clock, nextId, tasks, calls, queue, swept, wvars, rid, rtask, rdead, rret, rseen, rexc, avars, cret, sub, gvars, cvars, sweeps>>

AsdictResult ==
    /\ rpc = "asdict_result"
    /\ rdata' = rdata @@ [result |-> ReaderTask.result]
    /\ rpc' = "asdict_error"
    /\ UNCHANGED <<clock, nextId, tasks, calls, queue, swept, wvars, rid, rtask, rdead, rret, rseen, rexc, avars, cret, sub, gvars, cvars, sweeps>>

AsdictError ==
    /\ rpc = "asdict_error"
    /\ rdata' = rdata @@ [error |-> ReaderTask.error]
    /\ rpc' = "l32"
    /\ UNCHANGED <<clock, nextId, tasks, calls, queue, swept, wvars, rid, rtask, rdead, rret, rseen, rexc, avars, cret, sub, gvars, cvars, sweeps>>

\* Line 32: data['status'] = self.status.value, and the dict is returned.
L32 ==
    /\ rpc = "l32"
    /\ rret' = Some(rdata @@ [status |-> StatusValue(ReaderTask.status)])
    /\ rdata' = <<>>
    /\ rpc' = "ret"
    /\ rtask' = "null"
    /\ rdead' = None
    /\ UNCHANGED <<clock, nextId, tasks, calls, queue, swept, wvars, rid, rseen, rexc, avars, cret, sub, gvars, cvars, sweeps>>

\* The caller has the returned value; the reader is free for the next call.
Return ==
    /\ rpc = "ret"
    /\ rpc' = "idle"
    /\ rid' = UnknownId
    /\ rret' = None
    /\ rseen' = {}
    /\ rexc' = None
    /\ UNCHANGED <<clock, nextId, tasks, calls, queue, swept, wvars, rtask, rdead, rdata, avars, cret, sub, gvars, cvars, sweeps>>

----------------------------------------------------------------------------
(* TaskQueue.cleanup_old_tasks *)

\* Expired, sparing the records that are not finished.
ExpiredFinishedOnly(task, current_time, max_age) ==
    /\ task.status \in {COMPLETED, FAILED}
    /\ current_time - task.created_at > max_age

\* Expired, asking for one more unit of age.
ExpiredOlderOnly(task, current_time, max_age) == current_time - task.created_at > max_age + 1

\* Line 101: current_time - task.created_at > max_age
Expired(task, current_time, max_age) == current_time - task.created_at > max_age

\* Lines 99-102: the keys to remove.
ToRemove(current_time, max_age) ==
    {tid \in DOMAIN tasks : Expired(tasks[tid], current_time, max_age)}

\* Lines 97-105 of cleanup_old_tasks(max_age): current_time is read before
\* the lock is taken (so it may lie in the past when the scan runs); the scan
\* and the deletes run under the lock. An object the reader still refers to
\* lives on.
Cleanup(current_time, max_age) ==
    /\ tasks' = [tid \in DOMAIN tasks \ ToRemove(current_time, max_age) |-> tasks[tid]]
    /\ IF ReaderOn(rid) /\ rid \in ToRemove(current_time, max_age)
       THEN rtask' = "dead" /\ rdead' = Some(tasks[rid])
       ELSE UNCHANGED <<rtask, rdead>>
    /\ swept' = swept \cup ToRemove(current_time, max_age)
    /\ cret' = None
    /\ UNCHANGED <<clock, nextId, calls, queue, wvars, rpc, rid, rdata, rret, rseen, rexc, avars, sub, gvars, cvars>>

\* cleanup_old_tasks(max_age), the call not put on record.
CleanupOldTasks(current_time, max_age) ==
    /\ Cleanup(current_time, max_age)
    /\ UNCHANGED sweeps

\* cleanup_old_tasks(max_age), the call put on record: a call that removes
\* nothing is a step as well.
Sweep(current_time, max_age) ==
    /\ sweeps' = ~sweeps
    /\ Cleanup(current_time, max_age)

----------------------------------------------------------------------------

\* The queue, its worker pool and the sweeper.
QueueNext ==
    \/ Tick
    \/ Submit
    \/ \E id \in TaskIds : Schedule(id)
    \/ \E w \in Workers : Take(w)
    \/ \E w \in Workers : Start(w)
    \/ \E w \in Workers : \E value \in ReturnValues : RunReturn(w, value)
    \/ \E w \in Workers : \E msg \in Messages : RunRaise(w, msg)
    \/ \E w \in Workers : \E exc \in BaseExceptions : RunRaiseBase(w, exc)
    \/ \E ct \in 0 .. clock : \E ma \in MaxAges : CleanupOldTasks(ct, ma)

\* A caller polling get_task_status: for an id submit returned, or another.
PollNext ==
    \/ \E id \in {UnknownId} \cup (1 .. nextId - 1) : GetTask(id)
    \/ AsdictUpdatedAt
    \/ AsdictResult
    \/ AsdictError
    \/ L32
    \/ Return

\* Up to MaxTasks tasks on the pool, no status polling (get_task_status
\* writes nothing the queue reads).
Spec == Init /\ [][QueueNext]_vars

\* Up to MaxPolled tasks on the pool, and a caller polling their status.
Next ==
    \/ QueueNext /\ nextId' <= MaxPolled + 1
    \/ PollNext

PollSpec == Init /\ [][Next]_vars

\* The value and the message the callables of SweepSpec's runs end with.
SweepValues == {"{n: 42}"}

SweepMessages == {"boom"}

\* Up to MaxTasks tasks on the pool, the sweeper with its calls on record, and
\* a caller polling the ids whose records a sweep removed.
SweepNext ==
    \/ Tick
    \/ Submit
    \/ \E id \in TaskIds : Schedule(id)
    \/ \E w \in Workers : Take(w)
    \/ \E w \in Workers : Start(w)
    \/ \E w \in Workers : \E value \in SweepValues : RunReturn(w, value)
    \/ \E w \in Workers : \E msg \in SweepMessages : RunRaise(w, msg)
    \/ \E ct \in 0 .. clock : \E ma \in MaxAges : Sweep(ct, ma)
    \/ \E id \in swept : GetTask(id)
    \/ Return

\* TaskQueue(max_workers=1): one pool thread, which runs the tasks one after
\* the other (the sweeper does not depend on the size of the pool).
SweepInit == TaskQueueInit(1)

SweepSpec == SweepInit /\ [][SweepNext]_vars

----------------------------------------------------------------------------
(* RedisTaskQueue: the adapter over an external store, each task a hash     *)
(* task:{id} of text fields. Every hset and hgetall is one command of the   *)
(* store, and so one step. With self._redis None every method delegates to  *)
(* the embedded TaskQueue self._fallback, whose executor and threads are    *)
(* then the ones queue, wpc and wtask describe.                             *)

\* The client redis.from_url returns for a store that answers ping.
Client == Some("client")

\* The state only a TaskQueue has.
lvars == <<tasks, swept, cret, rtask, rdead, rdata, rseen>>

\* A value a callable can return that json.dumps cannot encode: a set.
Unencodable == {"{1, 2}"}

\* str(None)
StrNone == "None"

\* str(x) of a clock reading or of an id: its decimal text.
StrNum(x) == ToString(x)

\* json.dumps(value) raises TypeError for a value it cannot encode.
Encodable(value) == value \notin Unencodable

\* json.dumps(value) of an encodable value: null for None, the object's text
\* for the dict.
JsonDumps(value) == IF value = "None" THEN "null" ELSE "{\"n\": 42}"

\* json.loads(text) of the texts the result field can hold: the decoded value
\* (ok), or JSONDecodeError for a text that is not JSON, as "None" is.
JsonLoads(text) ==
    CASE text = "null" -> [ok |-> TRUE, val |-> None]
      [] text = "{\"n\": 42}" -> [ok |-> TRUE, val |-> Some("{n: 42}")]
      [] OTHER -> [ok |-> FALSE, val |-> None]

\* Lines 128-140: the hash submit writes, every field as text; the None of
\* result and error goes through str, not json.dumps.
Hash(id, created, updated) ==
    [id |-> StrNum(id), status |-> StatusValue(PENDING), created_at |-> StrNum(created),
     updated_at |-> StrNum(updated), result |-> StrNone, error |-> StrNone]

\* RedisTaskQueue.__init__(redis_url): the client when the store answers the
\* ping; otherwise (lines 118-121) self._redis = None and a fresh TaskQueue
\* as self._fallback.
RedisTaskQueueInit(reachable, k) ==
    IF reachable
    THEN /\ redis = Client
         /\ store = <<>>
         /\ sexc = {}
         /\ clock = 0
         /\ nextId = 1
         /\ tasks = <<>>
         /\ calls = <<>>
         /\ queue = <<>>
         /\ swept = {}
         /\ wpc = [w \in Pool(k) |-> "idle"]
         /\ wtask = [w \in Pool(k) |-> UnknownId]
         /\ excs = {}
         /\ wnow = [w \in Pool(k) |-> None]
         /\ wexc = [w \in Pool(k) |-> None]
         /\ sub = {}
         /\ rpc = "idle"
         /\ rid = UnknownId
         /\ rtask = "null"
         /\ rdead = None
         /\ rdata = <<>>
         /\ rret = None
         /\ rseen = {}
         /\ rexc = None
         /\ cret = None
         /\ sweeps = FALSE
         /\ SingletonInit
         /\ CacheInit
    ELSE TaskQueueInit(k)

\* The exception the client raises for a command the store does not answer.
StoreDown == [type |-> "ConnectionError", arg |-> "store down"]

\* The TypeError json.dumps raises for a set.
NotSerializable == [type |-> "TypeError", arg |-> "Object of type set is not JSON serializable"]

\* Lines 127-140 of submit when the store does not answer the hset: the
\* client raises, submit raises to its caller, nothing is stored under the id
\* and nothing is queued.
StoreSubmitFails ==
    /\ redis # None
    /\ nextId <= MaxTasks
    /\ sexc' = sexc \cup {nextId}
    /\ nextId' = nextId + 1
    /\ UNCHANGED <<clock, calls, queue, wvars, rpc, rid, rret, rexc, redis, store, lvars, sub, gvars, cvars, sweeps>>

\* Lines 127-140 of submit: the hash is written by one hset, from two
\* readings of time.time() taken before it; the execution is not queued yet.
StoreSubmit ==
    /\ nextId <= MaxTasks
    /\ \E created \in 0 .. clock : \E updated \in created .. clock :
           store' = store @@ (nextId :> Hash(nextId, created, updated))
    /\ sub' = sub \cup {nextId}
    /\ nextId' = nextId + 1
    /\ UNCHANGED <<clock, calls, queue, wvars, rpc, rid, rret, rexc, redis, sexc, lvars, gvars, cvars, sweeps>>

\* RedisTaskQueue.submit, up to its write of the record.
RedisSubmit == IF redis = None THEN Submit ELSE StoreSubmit

\* Lines 142-143 of submit: self._executor.submit(self._execute_task, ...)
\* queues the execution, and submit returns the id.
StoreSchedule(id) ==
    /\ id \in sub
    /\ sub' = sub \ {id}
    /\ queue' = Append(queue, id)
    /\ UNCHANGED <<clock, nextId, calls, wvars, rpc, rid, rret, rexc, avars, lvars, gvars, cvars, sweeps>>

\* RedisTaskQueue.submit, from there on.
RedisSchedule(id) == IF redis = None THEN Schedule(id) ELSE StoreSchedule(id)

\* An idle thread of the adapter's executor takes the next work item and
\* calls RedisTaskQueue._execute_task(task_id, func).
RedisTake(w) ==
    /\ redis # None
    /\ wpc[w] = "idle"
    /\ queue # <<>>
    /\ wtask' = [wtask EXCEPT ![w] = Head(queue)]
    /\ queue' = Tail(queue)
    /\ wpc' = [wpc EXCEPT ![w] = "r147"]
    /\ UNCHANGED <<clock, nextId, calls, excs, wnow, wexc, rpc, rid, rret, rexc, avars, lvars, sub, gvars, cvars, sweeps>>

\* hset(key, field, text) by pool thread w, which then stands at `next`.
\* hset creates the hash when the key is missing.
Hset(w, field, text, next) ==
    /\ store' = IF wtask[w] \in DOMAIN store
                THEN [store EXCEPT ![wtask[w]] = (field :> text) @@ @]
                ELSE store @@ (wtask[w] :> (field :> text))
    /\ wpc' = [wpc EXCEPT ![w] = next]

\* Line 147
R147(w) ==
    /\ wpc[w] = "r147"
    /\ Hset(w, "status", StatusValue(PROCESSING), "r148")
    /\ UNCHANGED <<clock, nextId, calls, queue, wtask, excs, wnow, wexc, rpc, rid, rret, rexc, redis, sexc, lvars, sub, gvars, cvars, sweeps>>

\* Line 148: the argument str(time.time()) is evaluated before the command is
\* sent.
R148Now(w) ==
    /\ wpc[w] = "r148"
    /\ wnow' = [wnow EXCEPT ![w] = Some(clock)]
    /\ wpc' = [wpc EXCEPT ![w] = "r148_hset"]
    /\ UNCHANGED <<clock, nextId, calls, queue, wtask, excs, wexc, rpc, rid, rret, rexc, avars, lvars, sub, gvars, cvars, sweeps>>

\* Line 148: the store applies the hset, with the reading taken before.
R148(w) ==
    /\ wpc[w] = "r148_hset"
    /\ Hset(w, "updated_at", StrNum(wnow[w][1]), "r151")
    /\ wnow' = [wnow EXCEPT ![w] = None]
    /\ UNCHANGED <<clock, nextId, calls, queue, wtask, excs, wexc, rpc, rid, rret, rexc, redis, sexc, lvars, sub, gvars, cvars, sweeps>>

\* Line 151: the callable returns `value`.
R151Return(w, value) ==
    /\ wpc[w] = "r151"
    /\ calls' = calls @@ (wtask[w] :> [kind |-> "return", val |-> value])
    /\ wpc' = [wpc EXCEPT ![w] = "r152"]
    /\ UNCHANGED <<clock, nextId, queue, wtask, excs, wnow, wexc, rpc, rid, rret, rexc, avars, lvars, sub, gvars, cvars, sweeps>>

\* Line 152
R152(w) ==
    /\ wpc[w] = "r152"
    /\ Hset(w, "status", StatusValue(COMPLETED), "r153")
    /\ UNCHANGED <<clock, nextId, calls, queue, wtask, excs, wnow, wexc, rpc, rid, rret, rexc, redis, sexc, lvars, sub, gvars, cvars, sweeps>>

\* Lines 151, 155: the callable raises Exception(msg); the except clause
\* catches it.
R151Raise(w, msg) ==
    /\ wpc[w] = "r151"
    /\ calls' = calls @@ (wtask[w] :> [kind |-> "raise", val |-> msg])
    /\ wexc' = [wexc EXCEPT ![w] = Some(Exc(msg))]
    /\ wpc' = [wpc EXCEPT ![w] = "r156"]
    /\ UNCHANGED <<clock, nextId, queue, wtask, excs, wnow, rpc, rid, rret, rexc, avars, lvars, sub, gvars, cvars, sweeps>>

\* Lines 151, 155: the callable raises a BaseException that is no Exception;
\* `except Exception` does not catch it, no field is written, and the
\* exception leaves the call.
R151RaiseBase(w, exc) ==
    /\ wpc[w] = "r151"
    /\ calls' = calls @@ (wtask[w] :> [kind |-> "raise_base", val |-> exc])
    /\ Finish(w, TRUE)
    /\ UNCHANGED <<clock, nextId, queue, rpc, rid, rret, rexc, avars, lvars, sub, gvars, cvars, sweeps>>

\* Line 153: json.dumps(result) and the write of result. A TypeError of
\* json.dumps is raised inside the try block, after status was written: the
\* except clause of line 155 catches it.
R153(w) ==
    /\ wpc[w] = "r153"
    /\ IF Encodable(calls[wtask[w]].val)
       THEN /\ Hset(w, "result", JsonDumps(calls[wtask[w]].val), "r154")
            /\ UNCHANGED wexc
       ELSE /\ wpc' = [wpc EXCEPT ![w] = "r156"]
            /\ wexc' = [wexc EXCEPT ![w] = Some(NotSerializable)]
            /\ UNCHANGED store
    /\ UNCHANGED <<clock, nextId, calls, queue, wtask, excs, wnow, rpc, rid, rret, rexc, redis, sexc, lvars, sub, gvars, cvars, sweeps>>

\* Lines 154 and 158: the argument str(time.time()) is evaluated before the
\* command is sent.
RLastNow(w) ==
    /\ wpc[w] \in {"r154", "r158"}
    /\ wnow' = [wnow EXCEPT ![w] = Some(clock)]
    /\ wpc' = [wpc EXCEPT ![w] = IF @ = "r154" THEN "r154_hset" ELSE "r158_hset"]
    /\ UNCHANGED <<clock, nextId, calls, queue, wtask, excs, wexc, rpc, rid, rret, rexc, avars, lvars, sub, gvars, cvars, sweeps>>

\* Lines 154 and 158: the store applies the last hset, with the reading taken
\* before (hset creates the hash when the key is missing); the call ends.
RLast(w) ==
    /\ wpc[w] \in {"r154_hset", "r158_hset"}
    /\ store' = IF wtask[w] \in DOMAIN store
                THEN [store EXCEPT ![wtask[w]] = ("updated_at" :> StrNum(wnow[w][1])) @@ @]
                ELSE store @@ (wtask[w] :> ("updated_at" :> StrNum(wnow[w][1])))
    /\ Finish(w, FALSE)
    /\ UNCHANGED <<clock, nextId, calls, queue, rpc, rid, rret, rexc, redis, sexc, lvars, sub, gvars, cvars, sweeps>>

\* Line 156
R156(w) ==
    /\ wpc[w] = "r156"
    /\ Hset(w, "status", StatusValue(FAILED), "r157")
    /\ UNCHANGED <<clock, nextId, calls, queue, wtask, excs, wnow, wexc, rpc, rid, rret, rexc, redis, sexc, lvars, sub, gvars, cvars, sweeps>>

\* The exception e the except clause of line 155 caught: the callable's, the
\* TypeError of json.dumps, or the client's for a failed hset of lines 152-154.
Caught(w) == wexc[w][1]

\* Line 157
R157(w) ==
    /\ wpc[w] = "r157"
    /\ Hset(w, "error", Str(Caught(w)), "r158")
    /\ UNCHANGED <<clock, nextId, calls, queue, wtask, excs, wnow, wexc, rpc, rid, rret, rexc, redis, sexc, lvars, sub, gvars, cvars, sweeps>>

\* The places of _execute_task at which the thread's next step is an hset
\* inside the try block (line 153 once json.dumps has returned).
InTry(w) ==
    \/ wpc[w] \in {"r152", "r154_hset"}
    \/ wpc[w] = "r153" /\ Encodable(calls[wtask[w]].val)

\* Lines 147-158: the store does not answer the hset the thread stands at, and
\* the client raises. Nothing is written. Inside the try block (lines
\* 152-154) the except clause of line 155 catches the exception; at lines 147
\* and 148, and inside the except clause (lines 156-158), it leaves the call.
HsetFails(w) ==
    /\ \/ InTry(w)
       \/ wpc[w] \in {"r147", "r148_hset", "r156", "r157", "r158_hset"}
    /\ IF InTry(w)
       THEN /\ wpc' = [wpc EXCEPT ![w] = "r156"]
            /\ wexc' = [wexc EXCEPT ![w] = Some(StoreDown)]
            /\ wnow' = [wnow EXCEPT ![w] = None]
            /\ UNCHANGED <<wtask, excs>>
       ELSE Finish(w, TRUE)
    /\ UNCHANGED <<clock, nextId, calls, queue, rpc, rid, rret, rexc, avars, lvars, sub, gvars, cvars, sweeps>>

\* Line 170: the dict built from the hash: result, when its text is not
\* empty, through json.loads, every other field as its text.
Decoded(data) == [data EXCEPT !.result = IF @ # "" THEN JsonLoads(@).val ELSE @]

\* Line 170 raises the JSONDecodeError of json.loads.
DecodeFails(data) == data.result # "" /\ ~JsonLoads(data.result).ok

\* Lines 164-172: hgetall; None for a key that is not stored (an empty
\* reply); otherwise the decoded dict, or the exception decoding raises.
StoreGetTaskStatus(id) ==
    /\ rpc = "idle"
    /\ rid' = id
    /\ rpc' = "ret"
    /\ IF id \notin DOMAIN store
       THEN rret' = None /\ rexc' = None
       ELSE IF DecodeFails(store[id])
            THEN rret' = None /\ rexc' = Some("JSONDecodeError")
            ELSE rret' = Some(Decoded(store[id])) /\ rexc' = None
    /\ UNCHANGED <<clock, nextId, calls, queue, wvars, avars, lvars, sub, gvars, cvars, sweeps>>

\* Line 164: the store does not answer the hgetall; the client raises and
\* get_task_status raises to its caller.
StoreGetTaskStatusFails(id) ==
    /\ redis # None
    /\ rpc = "idle"
    /\ rid' = id
    /\ rpc' = "ret"
    /\ rret' = None
    /\ rexc' = Some(StoreDown.type)
    /\ UNCHANGED <<clock, nextId, calls, queue, wvars, avars, lvars, sub, gvars, cvars, sweeps>>

\* RedisTaskQueue.get_task_status that forgets the fallback test.
RedisGetTaskStatusNoFallback(id) == StoreGetTaskStatus(id)

\* RedisTaskQueue.get_task_status
RedisGetTaskStatus(id) == IF redis = None THEN GetTask(id) ELSE StoreGetTaskStatus(id)

\* The adapter in use: its submit and get_task_status, the threads and the
\* to_dict of the embedded TaskQueue and a sweep of it (fallback mode), the
\* threads of the adapter's own executor (store mode).
AdapterNext ==
    \/ Tick
    \/ RedisSubmit /\ nextId' <= MaxPolled + 1
    \/ StoreSubmitFails /\ nextId' <= MaxPolled + 1
    \/ \E id \in TaskIds : RedisSchedule(id)
    \/ \E id \in {UnknownId} \cup (1 .. nextId - 1) : RedisGetTaskStatus(id)
    \/ \E id \in {UnknownId} \cup (1 .. nextId - 1) : StoreGetTaskStatusFails(id)
    \/ Return
    \/ \E w \in Workers : redis = None /\ Take(w)
    \/ \E w \in Workers : Start(w)
    \/ \E w \in Workers : \E value \in ReturnValues : RunReturn(w, value)
    \/ \E w \in Workers : \E msg \in Messages : RunRaise(w, msg)
    \/ \E w \in Workers : \E exc \in BaseExceptions : RunRaiseBase(w, exc)
    \/ AsdictUpdatedAt
    \/ AsdictResult
    \/ AsdictError
    \/ L32
    \/ \E ct \in 0 .. clock : \E ma \in MaxAges : redis = None /\ CleanupOldTasks(ct, ma)
    \/ \E w \in Workers : RedisTake(w)
    \/ \E w \in Workers : R147(w)
    \/ \E w \in Workers : R148Now(w)
    \/ \E w \in Workers : R148(w)
    \/ \E w \in Workers : \E value \in ReturnValues \cup Unencodable : R151Return(w, value)
    \/ \E w \in Workers : R152(w)
    \/ \E w \in Workers : \E msg \in Messages : R151Raise(w, msg)
    \/ \E w \in Workers : \E exc \in BaseExceptions : R151RaiseBase(w, exc)
    \/ \E w \in Workers : R153(w)
    \/ \E w \in Workers : R156(w)
    \/ \E w \in Workers : R157(w)
    \/ \E w \in Workers : RLastNow(w)
    \/ \E w \in Workers : RLast(w)
    \/ \E w \in Workers : HsetFails(w)

\* The adapter constructed with an endpoint that is reachable or not.
AdapterInit == \E reachable \in BOOLEAN : RedisTaskQueueInit(reachable, max_workers)

AdapterSpec == AdapterInit /\ [][AdapterNext]_vars

\* The adapter in use, its store-mode runs within one clock reading: what a
\* query returns for an id that is not stored, and every step of the fallback
\* mode, do not depend on the times the store holds.
OneReadingNext == AdapterNext /\ (redis # None => clock' = clock)

OneReadingSpec == AdapterInit /\ [][OneReadingNext]_vars

\* The values and messages the callables of ExecSpec's store-mode runs end
\* with: a value json.dumps encodes and one it does not, and one message.
ExecValues == {"{n: 42}"} \cup Unencodable

ExecMessages == {"boom"}

\* Either backend with its pool and up to MaxTasks tasks, no status polling:
\* the TaskQueue (with its sweeper and the clock) in fallback mode, the
\* adapter's own submit and executor in store mode. In store mode the times
\* are written and never read by these steps, and the runs are those within
\* one clock reading; AdapterSpec has the store with the clock advancing.
ExecNext ==
    \/ redis = None /\ QueueNext
    \/ redis # None /\ StoreSubmit
    \/ StoreSubmitFails
    \/ \E id \in TaskIds : redis # None /\ StoreSchedule(id)
    \/ \E w \in Workers : RedisTake(w)
    \/ \E w \in Workers : R147(w)
    \/ \E w \in Workers : R148Now(w)
    \/ \E w \in Workers : R148(w)
    \/ \E w \in Workers : \E value \in ExecValues : R151Return(w, value)
    \/ \E w \in Workers : R152(w)
    \/ \E w \in Workers : \E msg \in ExecMessages : R151Raise(w, msg)
    \/ \E w \in Workers : \E exc \in BaseExceptions : R151RaiseBase(w, exc)
    \/ \E w \in Workers : R153(w)
    \/ \E w \in Workers : R156(w)
    \/ \E w \in Workers : R157(w)
    \/ \E w \in Workers : RLastNow(w)
    \/ \E w \in Workers : RLast(w)
    \/ \E w \in Workers : HsetFails(w)

\* The adapter constructed with a pool of one thread more, so that there are
\* at least two.
ExecInit == \E reachable \in BOOLEAN : RedisTaskQueueInit(reachable, max_workers + 1)

ExecSpec == ExecInit /\ [][ExecNext]_vars

----------------------------------------------------------------------------
(* get_task_queue: the module's lazily created queue. Each caller's reads   *)
(* and its write of the global task_queue are steps of their own: nothing   *)
(* synchronises them. A queue instance is modelled by its class and the     *)
(* ids of the records stored through it.                                    *)

\* A new queue instance of class cls, with no task.
NewQueue(cls) == [cls |-> cls, tasks |-> {}]

\* Line 180: if task_queue is None
G180(c) ==
    /\ gpc[c] = "l180"
    /\ gpc' = [gpc EXCEPT ![c] = IF task_queue = None THEN "l181" ELSE "l182"]
    /\ UNCHANGED <<task_queue, gret, itasks, ginit, qvars, cvars>>

\* Line 181: task_queue = TaskQueue(), a new instance with no task.
G181(c) ==
    /\ gpc[c] = "l181"
    /\ LET q == Cardinality(DOMAIN itasks) + 1 IN
           /\ itasks' = itasks @@ (q :> NewQueue("TaskQueue"))
           /\ task_queue' = Some(q)
    /\ gpc' = [gpc EXCEPT ![c] = "l182"]
    /\ UNCHANGED <<gret, ginit, qvars, cvars>>

\* Line 182: return task_queue, the global as it is now.
G182(c) ==
    /\ gpc[c] = "l182"
    /\ gret' = [gret EXCEPT ![c] = task_queue]
    /\ gpc' = [gpc EXCEPT ![c] = "done"]
    /\ UNCHANGED <<task_queue, itasks, ginit, qvars, cvars>>

\* Line 187, `if redis_url:`: None and the empty string are false.
Truthy(redis_url) == redis_url # None /\ redis_url # Some("")

\* The redis_url arguments: None, the empty string (the default of REDIS_URL
\* in config.py), and a url.
RedisUrls == {None, Some(""), Some("redis://")}

\* initialize_task_queue(redis_url, max_workers), lines 185-190: the global is
\* assigned a new instance whatever it held, a RedisTaskQueue when redis_url
\* is true and a TaskQueue otherwise.
InitializeTaskQueue(redis_url) ==
    /\ ginit < MaxInits
    /\ LET q == Cardinality(DOMAIN itasks) + 1 IN
           /\ itasks' = itasks @@ (q :> NewQueue(IF Truthy(redis_url) THEN "RedisTaskQueue" ELSE "TaskQueue"))
           /\ task_queue' = Some(q)
    /\ ginit' = ginit + 1
    /\ UNCHANGED <<gpc, gret, qvars, cvars>>

\* A caller submits a task through the queue it was given: submit stores the
\* record under a fresh id in that instance (lines 46-56, or 127-140).
GSubmit(c) ==
    /\ gpc[c] = "done"
    /\ nextId <= MaxTasks
    /\ itasks' = [itasks EXCEPT ![gret[c][1]].tasks = @ \cup {nextId}]
    /\ nextId' = nextId + 1
    /\ UNCHANGED <<task_queue, gpc, gret, ginit, cvars, clock, tasks, calls, queue, swept, wvars, rvars, avars, cret, sub, sweeps>>

\* get_task_status(id) through instance q finds a record: lines 86-94, or
\* 160-172.
Found(q, id) == id \in itasks[q].tasks

SingletonNext ==
    \/ \E c \in Callers : G180(c)
    \/ \E c \in Callers : G181(c)
    \/ \E c \in Callers : G182(c)
    \/ \E c \in Callers : GSubmit(c)
    \/ \E redis_url \in RedisUrls : InitializeTaskQueue(redis_url)

SingletonSpec == Init /\ [][SingletonNext]_vars

----------------------------------------------------------------------------
(* InMemoryCache of cache.py, used by one thread: each method is one step. *)

\* dict.pop(key, None)
Pop(m, key) == [k \in DOMAIN m \ {key} |-> m[k]]

\* self._expiry.get(key, 0)
ExpiryOf(key) == IF key \in DOMAIN expiry THEN expiry[key] ELSE 0

\* Fresh, with <= for <.
FreshAtExpiry(now, exp) == now <= exp

\* Line 36: time.time() < expiry
Fresh(now, exp) == now < exp

\* get(key), lines 34-40: the value while it is fresh; an expired key is
\* deleted from both maps and None is returned, as for a key not stored.
CacheGet(key) ==
    /\ IF key \in DOMAIN cache
       THEN IF Fresh(clock, ExpiryOf(key))
            THEN /\ got' = Some([key |-> key, val |-> Some(cache[key])])
                 /\ UNCHANGED <<cache, expiry>>
            ELSE /\ got' = Some([key |-> key, val |-> None])
                 /\ cache' = Pop(cache, key)
                 /\ expiry' = Pop(expiry, key)
       ELSE /\ got' = Some([key |-> key, val |-> None])
            /\ UNCHANGED <<cache, expiry>>
    /\ UNCHANGED <<csets, qvars, gvars>>

\* set(key, value, ttl), lines 42-44
CacheSet(key, value, ttl) ==
    /\ cache' = (key :> value) @@ cache
    /\ expiry' = (key :> clock + ttl) @@ expiry
    /\ csets' = (key :> [val |-> value, deadline |-> clock + ttl]) @@ csets
    /\ UNCHANGED <<got, qvars, gvars>>

\* delete(key), lines 46-48
CacheDelete(key) ==
    /\ cache' = Pop(cache, key)
    /\ expiry' = Pop(expiry, key)
    /\ UNCHANGED <<got, csets, qvars, gvars>>

\* clear(), lines 50-52
CacheClear ==
    /\ cache' = <<>>
    /\ expiry' = <<>>
    /\ UNCHANGED <<got, csets, qvars, gvars>>

CacheNext ==
    \/ Tick
    \/ \E key \in Keys : CacheGet(key)
    \/ \E key \in Keys : \E value \in Values : \E ttl \in Ttls : CacheSet(key, value, ttl)
    \/ \E key \in Keys : CacheDelete(key)
    \/ CacheClear

CacheSpec == Init /\ [][CacheNext]_vars

----------------------------------------------------------------------------
(* The claims *)

\* The ids uuid4 has produced.
Issued == 1 .. nextId - 1

\* The ids submit has returned: a record was stored under each.
Submitted == Issued \ (sub \cup sexc)

Queued(id) == \E i \in 1 .. Len(queue) : queue[i] = id

Running(id) == \E w \in Workers : wtask[w] = id

\* The worker's call of _execute_task for id has ended.
Finished(id) == id \in Submitted /\ ~Queued(id) /\ ~Running(id)

\* No worker has begun lines 64-66 for id.
NotStarted(id) == Queued(id) \/ \E w \in Workers : wtask[w] = id /\ wpc[w] = "l64"

Terminal == {COMPLETED, FAILED}

\* C1: the statuses a record takes are a prefix of PENDING, PROCESSING,
\* COMPLETED or of PENDING, PROCESSING, FAILED: a record is created once, as
\* PENDING under a fresh id, and each step leaves its status alone or moves it
\* PENDING -> PROCESSING, PROCESSING -> COMPLETED or PROCESSING -> FAILED.
C1_StatusLifecycle ==
    [][\A id \in TaskIds :
          /\ (id \notin DOMAIN tasks /\ id \in DOMAIN tasks')
                => (id = nextId /\ tasks'[id].status = PENDING)
          /\ (id \in DOMAIN tasks /\ id \in DOMAIN tasks')
                => \/ tasks'[id].status = tasks[id].status
                   \/ <<tasks[id].status, tasks'[id].status>> \in
                         {<<PENDING, PROCESSING>>, <<PROCESSING, COMPLETED>>,
                          <<PROCESSING, FAILED>>}]_vars

\* A poll has returned the record of a task that reached a terminal status.
C1_Witness ==
    /\ rpc = "ret"
    /\ rret # None
    /\ rid \in DOMAIN tasks
    /\ tasks[rid].status \in Terminal

\* C2: every dictionary get_task_status returns equals the record as it stood
\* at one instant at which the lock was free during the call.
C2_ReadIsSnapshot ==
    (rpc = "ret" /\ rret # None) => \E t \in rseen : rret[1] = ToDict(t)

\* C3: once the worker has finished a task whose callable returned v, the
\* record (unless a sweep removed it) is COMPLETED with result v and no error.
C3_ReturnCompletes ==
    \A id \in Submitted :
        (id \in DOMAIN calls /\ calls[id].kind = "return" /\ id \notin swept)
            => /\ id \in DOMAIN tasks
               /\ tasks[id].status = COMPLETED
               /\ tasks[id].result = IF calls[id].val = "None" THEN None ELSE <<calls[id].val>>
               /\ tasks[id].error = None

\* A callable returned a dict, and another returned None; both are finished.
C3_Witness ==
    \E a, b \in Submitted :
        /\ a \in DOMAIN calls /\ a \in DOMAIN tasks /\ calls[a] = [kind |-> "return", val |-> "{n: 42}"]
        /\ b \in DOMAIN calls /\ b \in DOMAIN tasks /\ calls[b] = [kind |-> "return", val |-> "None"]

\* C4: once the worker has finished a task whose callable raised (an
\* Exception or another BaseException), the record (unless a sweep removed
\* it) is FAILED with a non-empty error that is the failure's description,
\* and no result.
C4_RaiseFails ==
    \A id \in Submitted :
        (id \in DOMAIN calls /\ calls[id].kind \in {"raise", "raise_base"} /\ id \notin swept)
            => /\ id \in DOMAIN tasks
               /\ tasks[id].status = FAILED
               /\ tasks[id].error = <<calls[id].val>>
               /\ tasks[id].error[1] # ""
               /\ tasks[id].result = None

\* C5: no call of _execute_task ends with an exception.
C5_NeverPropagates == excs = {}

\* C6: at most max_workers records are PROCESSING.
C6_AtMostKProcessing ==
    Cardinality({id \in DOMAIN tasks : tasks[id].status = PROCESSING}) <= max_workers

\* The record of id has reached COMPLETED or FAILED, or a sweep removed it.
Settled(id) ==
    \/ id \in swept
    \/ id \in DOMAIN tasks /\ tasks[id].status \in Terminal

\* C7: every submitted task reaches COMPLETED or FAILED and frees its slot:
\* once the worker's call of _execute_task for a task has ended (the slot is
\* free for the queued tasks), its record, unless a sweep removed it, is
\* COMPLETED or FAILED. No step changes the record of an ended call, so a
\* record this fails for never reaches a terminal status.
C7_AllReachTerminal ==
    \A id \in Submitted : Finished(id) => Settled(id)

\* C8: a poll of an id submit returned finds the record unless a sweep
\* removed it, and a poll that returns while no worker has started the task
\* shows it pending.
C8_VisibleAfterSubmit ==
    /\ \A id \in Submitted \ swept : id \in DOMAIN tasks
    /\ (rpc = "ret" /\ rid \in Submitted /\ rret = None) => rid \in swept
    /\ (rpc = "ret" /\ rid \in Submitted /\ rret # None /\ NotStarted(rid))
          => rret[1].status = "pending"

\* A poll has returned the record of a task no worker has started.
C8_Witness ==
    /\ rpc = "ret"
    /\ rid \in Submitted
    /\ rret # None
    /\ NotStarted(rid)

\* C9: every call cleanup_old_tasks(max_age), with current_time its clock
\* reading, removes exactly the records with current_time - created_at >
\* max_age, whatever their status, and leaves every other record stored and
\* as it is; a poll of an id a sweep removed returns None.
C9_CleanupRemovesOld ==
    [][/\ \A ct \in 0 .. clock : \A ma \in MaxAges :
            Sweep(ct, ma)
               => /\ DOMAIN tasks' \subseteq DOMAIN tasks
                  /\ \A id \in DOMAIN tasks :
                        IF ct - tasks[id].created_at > ma
                        THEN id \notin DOMAIN tasks'
                        ELSE id \in DOMAIN tasks' /\ tasks'[id] = tasks[id]
       /\ \A id \in swept : GetTask(id) => (rpc' = "ret" /\ rret' = None)]_vars

\* The one pool thread ran task k to its end and then started task r; with
\* both records stored, r PROCESSING and k finished, a call removed r and kept
\* k, which is stored as the thread left it; a poll of r returned None.
C9_Witness ==
    /\ Cardinality(Workers) = 1
    /\ rpc = "ret"
    /\ rret = None
    /\ rid \in swept
    /\ \E w \in Workers : wtask[w] = rid /\ wpc[w] = "l69"
    /\ \E k \in DOMAIN tasks :
          /\ k \in DOMAIN calls
          /\ tasks[k].status \in {COMPLETED, FAILED}

\* C10 as claimed: cleanup_old_tasks(max_age=0) run at the current clock
\* reading leaves no record, so that every submitted id is not found.
C10_CleanupZeroRemovesAll ==
    [][CleanupOldTasks(clock, 0) => DOMAIN tasks' = {}]_vars

\* C10 amended: cleanup_old_tasks(max_age=0) removes every record created at
\* a clock reading earlier than its own, so that its id is not found, and
\* keeps the records created at its own reading or after it.
C10_CleanupZeroRemovesEarlier ==
    [][swept' # swept =>
          \A ct \in 0 .. clock :
              CleanupOldTasks(ct, 0)
                 => \A id \in DOMAIN tasks :
                       /\ tasks[id].created_at < ct => id \notin DOMAIN tasks'
                       /\ tasks[id].created_at >= ct => id \in DOMAIN tasks']_vars

\* A sweep removed an earlier record and a record created at the current
\* clock reading is stored.
C10_Witness ==
    /\ swept # {}
    /\ \E id \in DOMAIN tasks : tasks[id].created_at = clock /\ clock > 0

\* C11: cleanup_old_tasks(max_age) returns the number of records it removed.
C11_CleanupReturnsCount ==
    [][\A ct \in 0 .. clock : \A ma \in MaxAges :
          CleanupOldTasks(ct, ma) => cret' = Some(Cardinality(ToRemove(ct, ma)))]_vars

\* The ids a status query can be about.
QueryIds == {UnknownId} \cup TaskIds

\* C12: in both backends a status query on an id that was never submitted,
\* or whose record a sweep removed, returns None: it raises nothing, returns
\* no record, and leaves the records of both stores as they are. The query
\* is get_task_status of the adapter, whether the store answers its hgetall
\* or not.
C12_MissIsNotFound ==
    [][\A id \in QueryIds :
          (/\ RedisGetTaskStatus(id) \/ StoreGetTaskStatusFails(id)
           /\ id \notin Issued \/ id \in swept)
             => /\ rpc' = "ret"
                /\ rret' = None
                /\ rexc' = None
                /\ tasks' = tasks
                /\ store' = store]_vars

\* C13: an adapter constructed with an unreachable endpoint stays in fallback
\* mode, never writes to the external store, and every step it takes is a
\* step of a Local Store TaskQueue from the same state, with the same results.
C13_FallbackIsLocal ==
    /\ [](redis = None => store = <<>>)
    /\ [][redis = None => (redis' = None /\ (PollNext \/ QueueNext))]_vars

\* In fallback mode a task was submitted, executed, and a query has returned
\* its record.
C13_Witness ==
    /\ redis = None
    /\ rpc = "ret"
    /\ rret # None
    /\ rid \in DOMAIN calls
    /\ rid \in DOMAIN tasks
    /\ rret[1] = ToDict(tasks[rid])
    /\ tasks[rid].status \in Terminal

StoredTerminal == {StatusValue(COMPLETED), StatusValue(FAILED)}

\* C14: in the external store, once the status field of a task is completed
\* or failed, no step changes it.
C14_StoredTerminalIsFinal ==
    [][\A id \in DOMAIN store :
          store[id].status \in StoredTerminal => store'[id].status = store[id].status]_vars

RecordFields == {"id", "status", "created_at", "updated_at", "result", "error"}

\* C15: with the store reachable, a status query on a submitted id that the
\* store answers raises nothing and returns the record, with status one of
\* the four values.
C15_StoreQueryReturnsRecord ==
    (redis # None /\ rpc = "ret" /\ rid \in Submitted /\ rexc # Some(StoreDown.type))
        => /\ rexc = None
           /\ rret # None
           /\ DOMAIN rret[1] = RecordFields
           /\ rret[1].status \in {StatusValue(st) : st \in TaskStatus}

\* C16: for every stored record and every dictionary a poll returns,
\* created_at <= updated_at; no step changes a record's created_at or lowers
\* its updated_at, and a step that changes the status sets updated_at to the
\* clock reading of that step.
C16_Timestamps ==
    /\ [](/\ \A id \in DOMAIN tasks : tasks[id].created_at <= tasks[id].updated_at
          /\ (rpc = "ret" /\ rret # None) => rret[1].created_at <= rret[1].updated_at)
    /\ [][\A id \in DOMAIN tasks \cap DOMAIN tasks' :
              /\ tasks'[id].created_at = tasks[id].created_at
              /\ tasks'[id].updated_at >= tasks[id].updated_at
              /\ tasks'[id].status # tasks[id].status => tasks'[id].updated_at = clock]_vars

\* A record submitted at an earlier clock reading has reached a terminal
\* status at a later one, and a poll has returned it.
C16_Witness ==
    /\ rpc = "ret"
    /\ rret # None
    /\ rid \in DOMAIN tasks
    /\ tasks[rid].status \in Terminal
    /\ tasks[rid].created_at < tasks[rid].updated_at
    /\ rret[1].created_at < rret[1].updated_at

\* C17: while a record is PENDING or PROCESSING its result and error are
\* unset; when it is COMPLETED its result is set and its error unset; when it
\* is FAILED its error is set and its result unset.
C17_ResultErrorByStatus ==
    \A id \in DOMAIN tasks :
        CASE tasks[id].status \in {PENDING, PROCESSING} ->
                 tasks[id].result = None /\ tasks[id].error = None
          [] tasks[id].status = COMPLETED ->
                 tasks[id].result # None /\ tasks[id].error = None
          [] tasks[id].status = FAILED ->
                 tasks[id].error # None /\ tasks[id].result = None

\* C18: once the worker's call of _execute_task for a submitted task has
\* ended, the task's callable has been invoked, whatever cleanup_old_tasks
\* removed meanwhile.
C18_CallableAlwaysRun ==
    \A id \in Submitted : Finished(id) => id \in DOMAIN calls

\* Pool thread w takes a step of _execute_task.
Executes(w) ==
    \/ Start(w)
    \/ \E value \in ReturnValues : RunReturn(w, value)
    \/ \E msg \in Messages : RunRaise(w, msg)
    \/ \E exc \in BaseExceptions : RunRaiseBase(w, exc)

\* C19: a step of the execution of task A adds no record, removes none,
\* leaves every other record as it is, and leaves A's own id and created_at
\* as they are.
C19_ExecutionIsLocal ==
    [][\A w \in Workers :
          Executes(w)
             => /\ DOMAIN tasks' = DOMAIN tasks
                /\ \A id \in DOMAIN tasks :
                      IF id = wtask[w]
                      THEN /\ tasks'[id].id = tasks[id].id
                           /\ tasks'[id].created_at = tasks[id].created_at
                      ELSE tasks'[id] = tasks[id]]_vars

\* One task has failed while the record of another, not yet started, is
\* stored as submit left it.
C19_Witness ==
    \E a, b \in DOMAIN tasks :
        /\ a # b
        /\ tasks[a].status = FAILED
        /\ tasks[b].status = PENDING
        /\ NotStarted(b)

\* C20: a record cleanup_old_tasks removed is never stored again, whatever
\* the worker of its task does afterwards, and every poll of its id that
\* begins after the removal returns None.
C20_NeverRecreated ==
    /\ [](\A id \in swept : id \notin DOMAIN tasks)
    /\ [][\A id \in swept : GetTask(id) => (rpc' = "ret" /\ rret' = None)]_vars

\* A record was removed while its task was running, the callable ended, the
\* worker's call ended with the KeyError, and a later poll returned None.
C20_Witness ==
    /\ rpc = "ret"
    /\ rret = None
    /\ rid \in swept
    /\ rid \in DOMAIN calls
    /\ rid \in excs
    /\ Finished(rid)

\* C21: in the external store, in every state a reader can see, a task whose
\* status is completed has its returned value as result and no error, one
\* whose status is failed has an error and no result, and one that is
\* pending or processing has neither.
C21_StoredResultErrorByStatus ==
    \A id \in DOMAIN store :
        CASE store[id].status = StatusValue(COMPLETED) ->
                 /\ id \in DOMAIN calls
                 /\ calls[id].kind = "return"
                 /\ Encodable(calls[id].val)
                 /\ store[id].result = JsonDumps(calls[id].val)
                 /\ store[id].error = StrNone
          [] store[id].status = StatusValue(FAILED) ->
                 store[id].error # StrNone /\ store[id].result = StrNone
          [] OTHER ->
                 store[id].result = StrNone /\ store[id].error = StrNone

\* The number of places id waits or runs in: queue entries and pool threads.
Scheduled(id) ==
    Cardinality({i \in 1 .. Len(queue) : queue[i] = id})
        + Cardinality({w \in Workers : wtask[w] = id})

\* No worker has written a transition of id yet.
Untouched(id) ==
    /\ id \notin DOMAIN calls
    /\ id \in DOMAIN tasks => tasks[id].status = PENDING
    /\ id \in DOMAIN store => store[id].status = StatusValue(PENDING)

\* C22: every submit stores a record under an id of its own and schedules one
\* execution of it: an id is in the executor's queue or with a pool thread at
\* most once, never with two threads, and while it waits for its thread no
\* transition of its record has been written.
C22_SingleOwner ==
    /\ DOMAIN tasks \cup swept \cup DOMAIN store = Issued \ sexc
    /\ \A id \in Submitted :
          /\ Scheduled(id) <= 1
          /\ (Queued(id) \/ \E w \in Workers : wtask[w] = id /\ wpc[w] \in {"l64", "r147"})
                => Untouched(id)
    /\ \A v, w \in Workers : (v # w /\ wtask[v] # UnknownId) => wtask[v] # wtask[w]

\* Two pool threads execute two tasks of the external store at the same
\* time, each its own: both records are PROCESSING, under two ids, and each
\* id is with one thread only.
C22_Witness ==
    /\ redis # None
    /\ \E v, w \in Workers :
          /\ v # w
          /\ wpc[v] = "r151"
          /\ wpc[w] = "r151"
          /\ wtask[v] # wtask[w]
          /\ {wtask[v], wtask[w]} \subseteq DOMAIN store
          /\ store[wtask[v]].id # store[wtask[w]].id
          /\ store[wtask[v]].status = StatusValue(PROCESSING)
          /\ store[wtask[w]].status = StatusValue(PROCESSING)

\* C23: the id field of a stored record equals its key and never changes,
\* and a step that removes a record is a step of cleanup_old_tasks.
C23_OnlySweeperDeletes ==
    /\ [](\A id \in DOMAIN tasks : tasks[id].id = id)
    /\ [][/\ \A id \in DOMAIN tasks \cap DOMAIN tasks' : tasks'[id].id = tasks[id].id
          /\ (DOMAIN tasks \ DOMAIN tasks' # {})
                => \E ct \in 0 .. clock : \E ma \in MaxAges : CleanupOldTasks(ct, ma)]_vars

\* No sweep has removed anything; a task has failed, its worker's call has
\* ended, and a status query has returned its record under the same id.
C23_Witness ==
    /\ swept = {}
    /\ rpc = "ret"
    /\ rret # None
    /\ rid \in DOMAIN tasks
    /\ rret[1].id = rid
    /\ tasks[rid].status = FAILED
    /\ Finished(rid)

\* C24: as long as initialize_task_queue has not been called, all callers
\* get_task_queue has returned to hold the same instance, and a task
\* submitted through the instance of one is found through the instance of
\* any other.
C24_Singleton ==
    ginit = 0 =>
        \A c, d \in Callers :
            (gpc[c] = "done" /\ gpc[d] = "done")
                => /\ gret[c] = gret[d]
                   /\ \A id \in itasks[gret[c][1]].tasks : Found(gret[d][1], id)

\* C25: the two maps of InMemoryCache have the same keys; get(key) returns a
\* value only if it is the value of the latest set of that key and the clock
\* is strictly below that set's t + ttl; at or after t + ttl it returns None
\* and the key is in neither map; a stored key below its deadline is returned.
C25_NeverExpired ==
    /\ [](DOMAIN cache = DOMAIN expiry)
    /\ [][\A key \in Keys :
              CacheGet(key)
                 => /\ got' # None /\ got'[1].key = key
                    /\ got'[1].val # None
                          => /\ key \in DOMAIN csets
                             /\ got'[1].val = Some(csets[key].val)
                             /\ clock < csets[key].deadline
                    /\ (key \in DOMAIN csets /\ clock >= csets[key].deadline)
                          => /\ got'[1].val = None
                             /\ key \notin DOMAIN cache'
                             /\ key \notin DOMAIN expiry'
                    /\ (key \in DOMAIN cache /\ key \in DOMAIN csets /\ clock < csets[key].deadline)
                          => got'[1].val = Some(csets[key].val)]_vars

\* A key set with a positive ttl was read exactly at its deadline: get
\* returned None and the key has left both maps, while another key is stored.
C25_Witness ==
    /\ got # None
    /\ got[1].val = None
    /\ got[1].key \in DOMAIN csets
    /\ clock = csets[got[1].key].deadline
    /\ clock > 0
    /\ got[1].key \notin DOMAIN cache
    /\ got[1].key \notin DOMAIN expiry
    /\ DOMAIN cache # {}

====
